---- MODULE Spec2Model ----
(***************************************************************************)
(* The command evaluator of the mini shell (src/src/cmd.c): parse_command  *)
(* walks a command tree in a process; external leaves, PIPE and PARALLEL   *)
(* fork children.  The state is the process table (each process with its   *)
(* call stack, descriptors, environment and working directory) and the     *)
(* pipes of the kernel.  The command tree is the input: the content of a   *)
(* node is drawn when parse_command reads it.                              *)
(***************************************************************************)
EXTENDS Integers, Sequences, FiniteSets, TLC

VARIABLES procs, pipes, hist

vars == <<procs, pipes, hist>>

(***************************** bounds **************************************)
\* size of the command tree: its operator nodes plus its leaves that carry
\* redirections
MaxSize == 1
\* exit codes an external program may return: 0..MaxExit
MaxExit == 2
\* chunks of data an external program may write to its standard output
MaxWrite == 2
\* chunks a pipe buffers before a writer blocks
PipeCap == 1

(************************ constants of the program *************************)
\* cmd.h: the value parse_simple returns for exit/quit
SHELL_EXIT == -100
\* utils.h, DIE: the status the process exits with
EXIT_FAILURE == 1
\* parser.h: io_flags bits
IO_REGULAR == 0
IO_OUT_APPEND == 1
IO_ERR_APPEND == 2
\* signal delivered to a writer of a pipe nobody can read
SIGPIPE == 13
\* a signal that ends a program from outside
SIGKILL == 9

NULL == "NULL"
NoPid == <<0>>
Shell == <<>>

(********************* wait statuses and C conversions *********************)
\* raw wait status of a process that called exit(code): low byte of code
ExitedStatus(code) == (code % 256) * 256
\* raw wait status of a process killed by signal sig
SignaledStatus(sig) == sig
\* <sys/wait.h> WEXITSTATUS: bits 8..15 of the raw status
WEXITSTATUS(status) == (status \div 256) % 256
\* conversion of an int to C bool, as in "return <int>" from a bool function
ToBool(x) == IF x # 0 THEN 1 ELSE 0

(****************************** descriptors ********************************)
Tty == [k |-> "tty", id |-> <<>>, name |-> "", m |-> "rw"]
File(name, mode) == [k |-> "file", id |-> <<>>, name |-> name, m |-> mode]
PipeEnd(id, end) == [k |-> "pipe", id |-> id, name |-> "", m |-> end]

\* file names a redirection may name; open() fails on the second
GoodFile == "f"
BadFile == "nofile"
Targets == {NULL, GoodFile, BadFile}
\* directories: chdir fails on the second
GoodDir == "d1"
BadDir == "nodir"
\* environment: one variable
VarName == "x"

(************************ the input: simple commands ***********************)
IoFlags == {IO_REGULAR, IO_OUT_APPEND, IO_ERR_APPEND, IO_OUT_APPEND + IO_ERR_APPEND}

\* the append flag of standard output, of standard error, is set in flags
OutAppendSet(flags) == (flags \div IO_OUT_APPEND) % 2 = 1

ErrAppendSet(flags) == (flags \div IO_ERR_APPEND) % 2 = 1

\* the redirections of a simple command: an append flag belongs to a target
\* and is set only when that target is present
Redirs ==
    { r \in [in : Targets, out : Targets, err : Targets, io_flags : IoFlags] :
        /\ OutAppendSet(r.io_flags) => r.out # NULL
        /\ ErrAppendSet(r.io_flags) => r.err # NULL }

NoRedir == [in |-> NULL, out |-> NULL, err |-> NULL, io_flags |-> IO_REGULAR]

HasRedir(r) == r.in # NULL \/ r.out # NULL \/ r.err # NULL

\* the verb as its chain of parts: verb->string, verb->next_part->string, ...
Verbs == { <<"exit">>, <<"quit">>, <<"cd">>, <<VarName>>,
           <<VarName, "=", "v1">>,
           <<VarName, "=">>, <<VarName, "/bin">> }

SimpleCmd(verb, params, r) ==
    [verb |-> verb, params |-> params, in |-> r.in, out |-> r.out,
     err |-> r.err, io_flags |-> r.io_flags]

\* c->scmd of an operator node
NoCmd == SimpleCmd(<<>>, <<>>, NoRedir)

ParamsOf(verb) ==
    IF verb[1] = "cd" THEN { <<GoodDir>>, <<BadDir>>, <<GoodDir, BadDir>> }
    ELSE { <<>> }

\* the simple commands a leaf may hold: without redirections (n = 0) or
\* with some (n = 1)
SimpleCmds(n) ==
    UNION { { SimpleCmd(v, ps, r) : ps \in ParamsOf(v),
                                    r \in IF n = 0 THEN {NoRedir}
                                           ELSE { x \in Redirs : HasRedir(x) } }
            : v \in Verbs }

PlainCmds == SimpleCmds(0)

RedirCmds == SimpleCmds(1)

(************************* RedirectionManager ******************************)
\* The standard streams of a process as a table [in, out, err, die]; die is
\* set when a DIE() of the redirection code fired (the process then exits).

\* open(filename, ...) == -1
OpenFails(filename) == filename = BadFile

\* lines 19-43
redirect_input(t, in, dupok) ==
    IF OpenFails(in) THEN [t EXCEPT !.die = TRUE]
    ELSE IF ~dupok THEN [t EXCEPT !.die = TRUE]
    ELSE [t EXCEPT !.in = File(in, "read")]

\* a redirect_output that ignores the append flag
redirect_output_trunc(t, out, io_flags, dupok) ==
    IF OpenFails(out) THEN [t EXCEPT !.die = TRUE]
    ELSE IF ~dupok THEN [t EXCEPT !.die = TRUE]
    ELSE [t EXCEPT !.out = File(out, "trunc")]

\* lines 45-76
redirect_output(t, out, io_flags, dupok) ==
    LET mode == IF io_flags = IO_OUT_APPEND THEN "append" ELSE "trunc"
    IN  IF OpenFails(out) THEN [t EXCEPT !.die = TRUE]
        ELSE IF ~dupok THEN [t EXCEPT !.die = TRUE]
        ELSE [t EXCEPT !.out = File(out, mode)]

\* lines 78-109
redirect_error(t, err, io_flags, dupok) ==
    LET mode == IF io_flags = IO_ERR_APPEND THEN "append" ELSE "trunc"
    IN  IF OpenFails(err) THEN [t EXCEPT !.die = TRUE]
        ELSE IF ~dupok THEN [t EXCEPT !.die = TRUE]
        ELSE [t EXCEPT !.err = File(err, mode)]

\* lines 111-151
redirect_both_out_and_err(t, s, dupok) ==
    IF OpenFails(s.out) THEN [t EXCEPT !.die = TRUE]
    ELSE IF OpenFails(s.err) THEN [t EXCEPT !.die = TRUE]
    ELSE IF ~dupok THEN [t EXCEPT !.die = TRUE]
    ELSE [t EXCEPT !.out = File(s.out, "append"), !.err = File(s.err, "trunc")]

\* lines 154-176
perform_redirections(t, s, dupok) ==
    LET t1 == IF s.in # NULL THEN redirect_input(t, s.in, dupok) ELSE t
    IN  IF t1.die THEN t1
        ELSE IF s.out # NULL
             THEN IF s.err = NULL
                  THEN redirect_output(t1, s.out, s.io_flags, dupok)
                  ELSE redirect_both_out_and_err(t1, s, dupok)
             ELSE IF s.err # NULL
                  THEN redirect_error(t1, s.err, s.io_flags, dupok)
                  ELSE t1

StreamsOf(pr) == [in |-> pr.in, out |-> pr.out, err |-> pr.err, die |-> FALSE]

(***************************** processes ***********************************)
\* A stack frame is one call of parse_command on a node, together with the
\* call it makes on that node (run_in_parallel, run_on_pipe or
\* execute_external_command) and the locals of these: pid1/pid2 are
\* first_pid/second_pid (pid for an external leaf), st1/st2 the statuses
\* waitpid stored, pfd the channel of pipefds, val the value returned once
\* pc = "ret".  n1 and n2 are the sizes of cmd1 and cmd2 (at "start", n1 is
\* the size of the node's own subtree).  For a leaf, scmd is its simple
\* command (c->scmd), verb the verb of it and call the function parse_simple
\* handed it to.
Frame(pc, n1) ==
    [op |-> "", pc |-> pc, val |-> 0, n1 |-> n1, n2 |-> 0,
     pfd |-> <<>>, pid1 |-> NoPid, pid2 |-> NoPid, st1 |-> 0, st2 |-> 0,
     verb |-> <<>>, call |-> "", scmd |-> NoCmd]

\* a call parse_command(c, ...) on a subtree of size n
CallParse(n) == Frame("start", n)

NoProg == [rd |-> FALSE, wr |-> 0, eof |-> FALSE]

\* a terminated process not yet waited for: its raw status, and how it
\* ended ("exit": an exit(code) of the shell code or of the program,
\* "exec": the exit after a failed execvp, "die": a DIE, "signal")
Zombie(status, why) ==
    [st |-> "zombie", stack |-> <<>>, env |-> "", cwd |-> "", in |-> Tty,
     out |-> Tty, err |-> Tty, fds |-> {}, status |-> status, prog |-> NoProg,
     orphan |-> FALSE, why |-> why]

Alive(ps, p) == p \in DOMAIN ps /\ ps[p].st \in {"run", "prog"}

Parent(p) == SubSeq(p, 1, Len(p) - 1)

IsChildOf(c, p) == Len(c) = Len(p) + 1 /\ Parent(c) = p

\* the pid fork() returns in p: the first free slot among p's children
NewPid(p) ==
    Append(p, CHOOSE i \in 1..(Cardinality(DOMAIN procs) + 1) :
                 /\ Append(p, i) \notin DOMAIN procs
                 /\ \A j \in 1..(i - 1) : Append(p, j) \in DOMAIN procs)

\* descriptors a process holds
Descs(pr) == {pr.in, pr.out, pr.err} \cup pr.fds

Holds(ps, p, d) == Alive(ps, p) /\ d \in Descs(ps[p])

\* pipes still referenced by a live process keep their buffer
LivePipes(ps, bufs) ==
    LET live == { q \in DOMAIN ps : Alive(ps, q) }
        ids == { d.id : d \in { e \in UNION { Descs(ps[q]) : q \in live } : e.k = "pipe" } }
    IN  [i \in ids \cap DOMAIN bufs |-> bufs[i]]

Top(p) == procs[p].stack[Len(procs[p].stack)]

Running(p) == p \in DOMAIN procs /\ procs[p].st = "run"

At(p, pc) == Running(p) /\ Top(p).pc = pc

AtOp(p, op, pc) == Running(p) /\ Top(p).op = op /\ Top(p).pc = pc

SetTop(pr, f) == [pr EXCEPT !.stack = [pr.stack EXCEPT ![Len(pr.stack)] = f]]

Push(pr, f) == [pr EXCEPT !.stack = Append(pr.stack, f)]

\* the process table after p terminates with raw status: its descriptors
\* close, its zombies go to init, its live children become orphans, and p
\* stays a zombie until its parent waits (an orphan is reaped by init)
Terminate(ps, p, status, why) ==
    LET gone == { c \in DOMAIN ps : IsChildOf(c, p) /\ ps[c].st = "zombie" }
                \cup (IF ps[p].orphan THEN {p} ELSE {})
    IN  [q \in DOMAIN ps \ gone |->
            IF q = p THEN Zombie(status, why)
            ELSE IF IsChildOf(q, p) THEN [ps[q] EXCEPT !.orphan = TRUE]
            ELSE ps[q]]

\* exit(code) in process p
ExitProc(p, code) ==
    /\ procs' = Terminate(procs, p, ExitedStatus(code), "exit")
    /\ pipes' = LivePipes(procs', pipes)

\* DIE(assertion, ...) with a true assertion in process p
Die(p) ==
    /\ procs' = Terminate(procs, p, ExitedStatus(EXIT_FAILURE), "die")
    /\ pipes' = LivePipes(procs', pipes)

\* the process ends by a signal
KillProc(p, sig) ==
    /\ procs' = Terminate(procs, p, SignaledStatus(sig), "signal")
    /\ pipes' = LivePipes(procs', pipes)

\* a child that starts with the initial environment instead of its parent's
ForkCleanEnv(p, c, parent, child) ==
    procs' = [q \in DOMAIN procs \cup {c} |->
                IF q = p THEN parent
                ELSE IF q = c THEN [child EXCEPT !.orphan = FALSE, !.env = "v0"]
                ELSE procs[q]]

\* redirections and dup2 made before fork(): the parent has the streams of
\* its child
ForkAfterDup(p, c, parent, child) ==
    procs' = [q \in DOMAIN procs \cup {c} |->
                IF q = p THEN [parent EXCEPT !.in = child.in, !.out = child.out,
                                             !.err = child.err]
                ELSE IF q = c THEN [child EXCEPT !.orphan = FALSE]
                ELSE procs[q]]

\* fork() in p succeeded with pid c: p goes on as record parent, the child
\* starts as record child (a copy of p but for what the child did since)
Fork(p, c, parent, child) ==
    procs' = [q \in DOMAIN procs \cup {c} |->
                IF q = p THEN parent
                ELSE IF q = c THEN [child EXCEPT !.orphan = FALSE]
                ELSE procs[q]]

\* waitpid(c, &status, 0) in p returns once c is a zombie, and reaps it
Reapable(c) == c \in DOMAIN procs /\ procs[c].st = "zombie"

Reap(p, c, fp) ==
    procs' = [q \in DOMAIN procs \ {c} |->
                IF q = p THEN SetTop(procs[p], fp) ELSE procs[q]]

(******************************* Init **************************************)
InitEnv == "v0"
InitDir == "d0"

ShellProc(n) ==
    [st |-> "run", stack |-> <<CallParse(n)>>, env |-> InitEnv, cwd |-> InitDir,
     in |-> Tty, out |-> Tty, err |-> Tty, fds |-> {}, status |-> 0,
     prog |-> NoProg, orphan |-> FALSE, why |-> ""]

\* The shell calls parse_command on the root of a tree of size at most
\* MaxSize.  hist records what the shell process has evaluated so far: an
\* exit/quit leaf, a PIPE or PARALLEL node.
Init ==
    /\ \E n \in 0..MaxSize : procs = (Shell :> ShellProc(n))
    /\ pipes = << >>
    /\ hist = [exit |-> FALSE, conc |-> FALSE]

\* the same on a tree of size MaxSize + 1: operators nested in operators
InitNested ==
    /\ procs = (Shell :> ShellProc(MaxSize + 1))
    /\ pipes = << >>
    /\ hist = [exit |-> FALSE, conc |-> FALSE]

(************************** OperatorEvaluator ******************************)
SeqCondOps == {"OP_SEQUENTIAL", "OP_CONDITIONAL_NZERO", "OP_CONDITIONAL_ZERO"}

\* a SEQUENTIAL node that stops after a failing cmd1
RunsSecondShortCircuit(op, v) ==
    CASE op = "OP_SEQUENTIAL" -> v = 0
      [] op = "OP_CONDITIONAL_NZERO" -> v # 0
      [] op = "OP_CONDITIONAL_ZERO" -> v = 0

\* conditional nodes with their tests exchanged
RunsSecondSwapped(op, v) ==
    CASE op = "OP_SEQUENTIAL" -> TRUE
      [] op = "OP_CONDITIONAL_NZERO" -> v = 0
      [] op = "OP_CONDITIONAL_ZERO" -> v # 0

\* lines 470-491: whether cmd2 is evaluated once cmd1 returned v
RunsSecond(op, v) ==
    CASE op = "OP_SEQUENTIAL" -> TRUE
      [] op = "OP_CONDITIONAL_NZERO" -> v # 0
      [] op = "OP_CONDITIONAL_ZERO" -> v = 0

\* the sizes of cmd1 and cmd2 under an operator node of a subtree of size n
Splits(n) == { <<k, n - 1 - k>> : k \in 0..(n - 1) }

\* the frame of a node once it is known to be op, with cmd1 and cmd2
Node(f, op, ks) == [f EXCEPT !.op = op, !.n1 = ks[1], !.n2 = ks[2]]

\* the frame when the call returns v
Ret(f, v) == [f EXCEPT !.pc = "ret", !.n1 = 0, !.n2 = 0, !.val = v]

\* parse_command on a SEQUENTIAL or conditional node: call cmd1
\* (lines 472, 481, 488)
ParseSeqCond(p) ==
    /\ At(p, "start")
    /\ \E op \in SeqCondOps, ks \in Splits(Top(p).n1) :
          procs' = [procs EXCEPT ![p] =
                      Push(SetTop(@, [Node(Top(p), op, ks) EXCEPT !.pc = "c1", !.n1 = 0]),
                           CallParse(ks[1]))]
    /\ UNCHANGED <<pipes, hist>>

\* cmd1 or cmd2 returns (its frame is at "ret") into the parse_command that
\* called it (lines 472-491, 501)
Return(p) ==
    /\ At(p, "ret") /\ Len(procs[p].stack) >= 2
    /\ LET st == procs[p].stack
           v == Top(p).val
           caller == st[Len(st) - 1]
           popped == [procs[p] EXCEPT !.stack = SubSeq(st, 1, Len(st) - 1)]
       IN  /\ caller.pc \in {"c1", "c2"}
           /\ procs' = [procs EXCEPT ![p] =
                IF caller.pc = "c1" /\ RunsSecond(caller.op, v)
                THEN Push(SetTop(popped, [caller EXCEPT !.pc = "c2", !.n2 = 0,
                                                        !.val = IF caller.op = "OP_SEQUENTIAL"
                                                                THEN caller.val ELSE v]),
                          CallParse(caller.n2))
                ELSE SetTop(popped, Ret(caller, v))]
    /\ UNCHANGED <<pipes, hist>>

\* a branch child whose subtree returns into its copy of the parent's frame
\* instead of exiting
ReturnFallsThrough(p) ==
    /\ At(p, "ret") /\ Len(procs[p].stack) >= 2
    /\ procs[p].stack[Len(procs[p].stack) - 1].pc \in {"eval1", "eval2"}
    /\ LET st == procs[p].stack
           popped == [procs[p] EXCEPT !.stack = SubSeq(st, 1, Len(st) - 1)]
       IN  procs' = [procs EXCEPT ![p] = SetTop(popped, Ret(st[Len(st) - 1], Top(p).val))]
    /\ UNCHANGED <<pipes, hist>>

\* the subtree of a branch child returns: exit(parse_command(...))
\* (lines 323, 336, 412, 439)
ReturnToChild(p) ==
    /\ At(p, "ret") /\ Len(procs[p].stack) >= 2
    /\ procs[p].stack[Len(procs[p].stack) - 1].pc \in {"eval1", "eval2"}
    /\ ExitProc(p, Top(p).val)
    /\ UNCHANGED hist

(*************************** BuiltinDispatcher *****************************)
\* lines 278-301: which branch of parse_simple a simple command takes
Dispatch(s) ==
    IF s.verb[1] = "exit" THEN "shell_exit"
    ELSE IF s.verb[1] = "quit" THEN "shell_exit"
    ELSE IF s.verb[1] = "cd" THEN "complete_cd_command"
    ELSE IF Len(s.verb) >= 2 THEN "assign_environment_variable"
    ELSE "execute_external_command"

\* line 253, negated: the next part is "=" and a value part follows it
AssignSyntaxOk(s) == s.verb[2] = "=" /\ Len(s.verb) >= 3

\* a shell_cd that drops the result of chdir
ChdirResultDropped(dir) == 0

\* lines 181-191: chdir(dir_name), 0 or -1
Chdir(dir) == IF dir = GoodDir THEN 0 ELSE -1

\* parse_command reads a leaf (line 466): a subtree of size 0 or 1
AtLeaf(p) == At(p, "start") /\ Top(p).n1 <= 1

LeafCmds(p) == IF Top(p).n1 = 0 THEN PlainCmds ELSE RedirCmds

\* the frame of a node once it is known to be the leaf s
Leaf(f, s) ==
    [f EXCEPT !.op = "OP_NONE", !.verb = s.verb, !.call = Dispatch(s), !.scmd = s]

\* exit / quit (lines 278-282, 203-206)
LeafExit(p) ==
    /\ AtLeaf(p)
    /\ \E s \in LeafCmds(p) :
          /\ Dispatch(s) = "shell_exit"
          /\ procs' = [procs EXCEPT ![p] = SetTop(@, Ret(Leaf(Top(p), s), SHELL_EXIT))]
          /\ hist' = IF p = Shell THEN [hist EXCEPT !.exit = TRUE] ELSE hist
    /\ UNCHANGED pipes

\* cd (lines 284-285, 193-198): redirections in this process, then chdir
LeafCd(p) ==
    /\ AtLeaf(p)
    /\ \E s \in LeafCmds(p), dupok \in BOOLEAN :
          LET r == perform_redirections(StreamsOf(procs[p]), s, dupok)
              rv == Chdir(s.params[1])
              pr == [procs[p] EXCEPT !.in = r.in, !.out = r.out, !.err = r.err,
                                     !.cwd = IF rv = 0 THEN s.params[1] ELSE @]
          IN  /\ Dispatch(s) = "complete_cd_command"
              /\ (HasRedir(s) \/ dupok)
              /\ UNCHANGED hist
              /\ IF r.die
                 THEN Die(p)
                 ELSE /\ procs' = [procs EXCEPT ![p] = SetTop(pr, Ret(Leaf(Top(p), s), ToBool(rv)))]
                      /\ pipes' = LivePipes(procs', pipes)

\* an assignment in a child that shares its memory with its parent (a
\* branch created by vfork): the parent's environment changes too
LeafAssignShared(p) ==
    /\ AtLeaf(p)
    /\ \E s \in LeafCmds(p), setenvok \in BOOLEAN :
          /\ Dispatch(s) = "assign_environment_variable"
          /\ (AssignSyntaxOk(s) \/ setenvok)
          /\ procs' = [q \in DOMAIN procs |->
                IF q = p
                THEN IF ~AssignSyntaxOk(s) THEN SetTop(procs[p], Ret(Leaf(Top(p), s), 0))
                     ELSE IF setenvok
                          THEN SetTop([procs[p] EXCEPT !.env = s.verb[3]], Ret(Leaf(Top(p), s), 0))
                          ELSE SetTop(procs[p], Ret(Leaf(Top(p), s), -1))
                ELSE IF /\ p # Shell /\ q = Parent(p) /\ procs[q].st = "run"
                        /\ AssignSyntaxOk(s) /\ setenvok
                     THEN [procs[q] EXCEPT !.env = s.verb[3]]
                     ELSE procs[q]]
          /\ UNCHANGED hist
    /\ UNCHANGED pipes

\* NAME=value (lines 287-290, 250-264)
LeafAssign(p) ==
    /\ AtLeaf(p)
    /\ \E s \in LeafCmds(p), setenvok \in BOOLEAN :
          /\ Dispatch(s) = "assign_environment_variable"
          /\ (AssignSyntaxOk(s) \/ setenvok)
          /\ procs' = [procs EXCEPT ![p] =
                IF ~AssignSyntaxOk(s) THEN SetTop(@, Ret(Leaf(Top(p), s), 0))
                ELSE IF setenvok
                     THEN SetTop([@ EXCEPT !.env = s.verb[3]], Ret(Leaf(Top(p), s), 0))
                     ELSE SetTop(@, Ret(Leaf(Top(p), s), -1))]
          /\ UNCHANGED hist
    /\ UNCHANGED pipes

(************************* ExternalCommandRunner ***************************)
\* what the started program does: read standard input to its end (rd),
\* then write wr chunks to standard output, then end; eof is set once it
\* has seen the end of its input
Programs(in, out) ==
    [rd : IF in.k = "pipe" THEN BOOLEAN ELSE {FALSE},
     wr : IF out.k = "pipe" THEN {0, MaxWrite} ELSE {0},
     eof : {FALSE}]

\* the status execvp's failure ends the child with (line 227)
ExecFailed == 0

\* lines 217-228: the child of execute_external_command after its
\* redirections (streams r) and execvp: a zombie when a DIE fired or when
\* execvp failed, else the program g with the image replaced
ExtChildAfter(pr, r, found, g) ==
    IF r.die THEN Zombie(ExitedStatus(EXIT_FAILURE), "die")
    ELSE IF ~found THEN Zombie(ExitedStatus(ExecFailed), "exec")
    ELSE [pr EXCEPT !.st = "prog", !.stack = << >>, !.in = r.in, !.out = r.out,
                    !.err = r.err, !.prog = g]

\* the value execute_external_command returns when fork() failed (line 214)
ExtForkFailed == 0

\* anything else is an external command (line 301): fork (lines 210-214);
\* the child redirects and calls execvp (lines 217-228)
LeafExternal(p) ==
    /\ AtLeaf(p)
    /\ \E s \in LeafCmds(p) :
          /\ Dispatch(s) = "execute_external_command"
          /\ UNCHANGED hist
          /\ \/ procs' = [procs EXCEPT ![p] = SetTop(@, Ret(Leaf(Top(p), s), ExtForkFailed))]
             \/ \E dupok \in BOOLEAN, found \in BOOLEAN :
                  LET r == perform_redirections(StreamsOf(procs[p]), s, dupok)
                      c == NewPid(p)
                  IN  /\ (HasRedir(s) \/ dupok)
                      /\ (~r.die \/ found)
                      /\ \E g \in (IF r.die \/ ~found THEN {NoProg} ELSE Programs(r.in, r.out)) :
                           Fork(p, c,
                                SetTop(procs[p], [Leaf(Top(p), s) EXCEPT !.pc = "wait", !.pid1 = c]),
                                ExtChildAfter(procs[p], r, found, g))
    /\ UNCHANGED pipes

\* an execute_external_command declared bool, as run_on_pipe is
ExtResultAsBool(status) == ToBool(WEXITSTATUS(status))

\* line 245: the value execute_external_command returns
ExtResult(status) == WEXITSTATUS(status)

\* lines 242-245: waitpid, then return WEXITSTATUS(status)
ExtWait(p) ==
    /\ AtOp(p, "OP_NONE", "wait")
    /\ Reapable(Top(p).pid1)
    /\ Reap(p, Top(p).pid1,
            [Ret(Top(p), ExtResult(procs[Top(p).pid1].status))
               EXCEPT !.st1 = procs[Top(p).pid1].status])
    /\ UNCHANGED <<pipes, hist>>

(************************** external programs ******************************)
Readers(i) == { q \in DOMAIN procs : Holds(procs, q, PipeEnd(i, "r")) }

Writers(i) == { q \in DOMAIN procs : Holds(procs, q, PipeEnd(i, "w")) }

IsProg(q) == q \in DOMAIN procs /\ procs[q].st = "prog"

\* read(0, ...): a chunk if the pipe holds one, end-of-input when it is empty
\* and no write end is open, else the reader blocks
ProgRead(q) ==
    /\ IsProg(q) /\ procs[q].prog.rd
    /\ LET i == procs[q].in.id
       IN  \/ /\ pipes[i] > 0
              /\ pipes' = [pipes EXCEPT ![i] = @ - 1]
              /\ UNCHANGED procs
           \/ /\ pipes[i] = 0 /\ Writers(i) = {}
              /\ procs' = [procs EXCEPT ![q].prog.rd = FALSE, ![q].prog.eof = TRUE]
              /\ UNCHANGED pipes
    /\ UNCHANGED hist

\* write(1, ...): SIGPIPE when no read end is open, a chunk into the pipe
\* when it has room, else the writer blocks
ProgWrite(q) ==
    /\ IsProg(q) /\ ~procs[q].prog.rd /\ procs[q].prog.wr > 0
    /\ LET i == procs[q].out.id
       IN  \/ /\ Readers(i) = {}
              /\ KillProc(q, SIGPIPE)
           \/ /\ Readers(i) # {} /\ pipes[i] < PipeCap
              /\ pipes' = [pipes EXCEPT ![i] = @ + 1]
              /\ procs' = [procs EXCEPT ![q].prog.wr = @ - 1]
    /\ UNCHANGED hist

\* the program ends: exit(k), or a signal kills it
ProgEnd(q) ==
    /\ IsProg(q) /\ ~procs[q].prog.rd /\ procs[q].prog.wr = 0
    /\ \/ \E k \in 0..MaxExit : ExitProc(q, k)
       \/ KillProc(q, SIGKILL)
    /\ UNCHANGED hist

(**************************** ParallelExecutor *****************************)
\* the value run_in_parallel returns when a fork() failed (lines 318, 331)
\* and run_on_pipe when pipe() or a fork() failed (lines 374, 390, 420):
\* false, as the int parse_command stores in exit_code
ForkFailed == ToBool(0)

\* the branch child of a PARALLEL or PIPE node: a copy of pr that calls
\* parse_command on its subtree of size n and then exits
Branch(pr, f, pc, n) == Push(SetTop(pr, [f EXCEPT !.pc = pc]), CallParse(n))

\* the branch child of a PIPE node: its dup2 may fail (lines 400, 427)
PipeBranch(pr, f, pc, n, dupok) ==
    IF dupok THEN Branch(pr, f, pc, n)
    ELSE Zombie(ExitedStatus(EXIT_FAILURE), "die")

\* parse_command on a PARALLEL node calls run_in_parallel (line 477):
\* first fork, whose child calls parse_command(cmd1) (lines 314-324)
ParseParallel(p) ==
    /\ At(p, "start")
    /\ \E ks \in Splits(Top(p).n1) :
          LET f == Node(Top(p), "OP_PARALLEL", ks)
              c == NewPid(p)
          IN  \/ procs' = [procs EXCEPT ![p] = SetTop(@, Ret(f, ForkFailed))]
              \/ Fork(p, c, SetTop(procs[p], [f EXCEPT !.pc = "fork2", !.pid1 = c]),
                      Branch(procs[p], f, "eval1", f.n1))
    /\ hist' = IF p = Shell THEN [hist EXCEPT !.conc = TRUE] ELSE hist
    /\ UNCHANGED pipes

\* lines 327-337: second fork, whose child calls parse_command(cmd2)
ParFork2(p) ==
    /\ AtOp(p, "OP_PARALLEL", "fork2")
    /\ LET c == NewPid(p)
       IN  \/ procs' = [procs EXCEPT ![p] = SetTop(@, Ret(Top(p), ForkFailed))]
           \/ Fork(p, c, SetTop(procs[p], [Top(p) EXCEPT !.pc = "wait1", !.pid2 = c]),
                   Branch(procs[p], Top(p), "eval2", Top(p).n2))
    /\ UNCHANGED <<pipes, hist>>

\* line 342
ParWait1(p) ==
    /\ AtOp(p, "OP_PARALLEL", "wait1")
    /\ Reapable(Top(p).pid1)
    /\ Reap(p, Top(p).pid1,
            [Top(p) EXCEPT !.pc = "wait2", !.st1 = procs[Top(p).pid1].status])
    /\ UNCHANGED <<pipes, hist>>

\* lines 348-356: the bool run_in_parallel returns, as an int
ParallelResult(first_status, second_status) ==
    IF WEXITSTATUS(first_status) # 0 THEN ToBool(0)
    ELSE IF WEXITSTATUS(second_status) # 0 THEN ToBool(0)
    ELSE ToBool(1)

\* lines 343-356
ParWait2(p) ==
    /\ AtOp(p, "OP_PARALLEL", "wait2")
    /\ Reapable(Top(p).pid2)
    /\ Reap(p, Top(p).pid2,
            [Ret(Top(p), ParallelResult(Top(p).st1, procs[Top(p).pid2].status))
               EXCEPT !.st2 = procs[Top(p).pid2].status])
    /\ UNCHANGED <<pipes, hist>>

(****************************** PipeExecutor *******************************)
\* the channel pipe() creates: the first free slot of the caller
NewPipe(p) ==
    Append(p, CHOOSE i \in 1..(Cardinality(DOMAIN pipes) + 1) :
                 /\ Append(p, i) \notin DOMAIN pipes
                 /\ \A j \in 1..(i - 1) : Append(p, j) \in DOMAIN pipes)

BothEnds(i) == {PipeEnd(i, "r"), PipeEnd(i, "w")}

\* lines 398-409: the first child puts the write end on its standard output
\* and closes both pipefds
LeftChild(pr, i) == [pr EXCEPT !.out = PipeEnd(i, "w"), !.fds = @ \ BothEnds(i)]

\* lines 425-436: the second child puts the read end on its standard input
\* and closes both pipefds
RightChild(pr, i) == [pr EXCEPT !.in = PipeEnd(i, "r"), !.fds = @ \ BothEnds(i)]

\* lines 447-448: the descriptors of the parent once it closed both ends
ParentClose(fds, i) == fds \ BothEnds(i)

\* parse_command on a PIPE node calls run_on_pipe (line 494): pipe()
\* (lines 373-374), then the first fork (lines 386-390), whose child attaches
\* its standard output and calls parse_command(cmd1) (lines 393-412)
ParsePipe(p) ==
    /\ At(p, "start")
    /\ \E ks \in Splits(Top(p).n1) :
          LET f == Node(Top(p), "OP_PIPE", ks)
              i == NewPipe(p)
              c == NewPid(p)
              pr == [procs[p] EXCEPT !.fds = @ \cup BothEnds(i)]
          IN  \/ /\ procs' = [procs EXCEPT ![p] = SetTop(@, Ret(f, ForkFailed))]
                 /\ UNCHANGED pipes
              \/ /\ procs' = [procs EXCEPT ![p] = SetTop(pr, Ret([f EXCEPT !.pfd = i], ForkFailed))]
                 /\ pipes' = (i :> 0) @@ pipes
              \/ /\ \E dupok \in BOOLEAN :
                      Fork(p, c, SetTop(pr, [f EXCEPT !.pc = "fork2", !.pfd = i, !.pid1 = c]),
                           PipeBranch(LeftChild(pr, i), [f EXCEPT !.pfd = i], "eval1", f.n1, dupok))
                 /\ pipes' = (i :> 0) @@ pipes
    /\ hist' = IF p = Shell THEN [hist EXCEPT !.conc = TRUE] ELSE hist

\* lines 416-420: second fork, whose child attaches its standard input and
\* calls parse_command(cmd2) (lines 423-439); the parent then closes both
\* ends (lines 447-448)
PipeFork2(p) ==
    /\ AtOp(p, "OP_PIPE", "fork2")
    /\ LET c == NewPid(p)
           i == Top(p).pfd
       IN  \/ procs' = [procs EXCEPT ![p] = SetTop(@, Ret(Top(p), ForkFailed))]
           \/ \E dupok \in BOOLEAN :
                Fork(p, c,
                     SetTop([procs[p] EXCEPT !.fds = ParentClose(@, i)],
                            [Top(p) EXCEPT !.pc = "wait1", !.pid2 = c]),
                     PipeBranch(RightChild(procs[p], i), Top(p), "eval2", Top(p).n2, dupok))
    /\ pipes' = LivePipes(procs', pipes)
    /\ UNCHANGED hist

\* line 453: waitpid(first_pid, NULL, 0)
PipeWait1(p) ==
    /\ AtOp(p, "OP_PIPE", "wait1")
    /\ Reapable(Top(p).pid1)
    /\ Reap(p, Top(p).pid1, [Top(p) EXCEPT !.pc = "wait2"])
    /\ UNCHANGED <<pipes, hist>>

\* line 456: the bool run_on_pipe returns, as an int
PipeResult(status) == ToBool(WEXITSTATUS(status))

\* lines 454-456: waitpid(second_pid, &status, 0)
PipeWait2(p) ==
    /\ AtOp(p, "OP_PIPE", "wait2")
    /\ Reapable(Top(p).pid2)
    /\ Reap(p, Top(p).pid2,
            [Ret(Top(p), PipeResult(procs[Top(p).pid2].status))
               EXCEPT !.st2 = procs[Top(p).pid2].status])
    /\ UNCHANGED <<pipes, hist>>

(******************************** Next *************************************)
Next ==
    \/ \E p \in DOMAIN procs : ParseSeqCond(p)
    \/ \E p \in DOMAIN procs : ParseParallel(p)
    \/ \E p \in DOMAIN procs : ParsePipe(p)
    \/ \E p \in DOMAIN procs : Return(p)
    \/ \E p \in DOMAIN procs : ReturnToChild(p)
    \/ \E p \in DOMAIN procs : LeafExit(p)
    \/ \E p \in DOMAIN procs : LeafCd(p)
    \/ \E p \in DOMAIN procs : LeafAssign(p)
    \/ \E p \in DOMAIN procs : LeafExternal(p)
    \/ \E p \in DOMAIN procs : ExtWait(p)
    \/ \E p \in DOMAIN procs : ProgRead(p)
    \/ \E p \in DOMAIN procs : ProgWrite(p)
    \/ \E p \in DOMAIN procs : ProgEnd(p)
    \/ \E p \in DOMAIN procs : ParFork2(p)
    \/ \E p \in DOMAIN procs : ParWait1(p)
    \/ \E p \in DOMAIN procs : ParWait2(p)
    \/ \E p \in DOMAIN procs : PipeFork2(p)
    \/ \E p \in DOMAIN procs : PipeWait1(p)
    \/ \E p \in DOMAIN procs : PipeWait2(p)

Spec == Init /\ [][Next]_vars

NestedSpec == InitNested /\ [][Next]_vars

(******************************* claims ************************************)
\* <sys/wait.h> WIFEXITED / WIFSIGNALED on a raw status
Exited(status) == status % 128 = 0

Signaled(status) == status % 128 # 0

\* the calls of parse_command that have just returned, with their locals
ReturnedFrames == { Top(p) : p \in { q \in DOMAIN procs : At(q, "ret") } }

\* the leaves being evaluated or just evaluated
LeafFrames == { Top(p) : p \in { q \in DOMAIN procs : Running(q) /\ Top(q).op = "OP_NONE" } }

\* C1: for every PARALLEL(A, B) node whose two branch processes ran,
\* parse_command returns 0 if and only if both ended with exit status 0, and
\* 1 when at least one ended with another status.
C1_ParallelZeroIffBothZero ==
    \A f \in ReturnedFrames :
        (f.op = "OP_PARALLEL" /\ f.pid2 # NoPid) =>
            /\ (f.val = 0) <=> (f.st1 = ExitedStatus(0) /\ f.st2 = ExitedStatus(0))
            /\ f.val \in {0, 1}

\* C2: for every PIPE(A, B) node whose right-hand child exits with code k,
\* parse_command returns exactly k, whatever the left-hand child did.
C2_PipeReturnsRightExitCode ==
    \A f \in ReturnedFrames :
        (f.op = "OP_PIPE" /\ f.pid2 # NoPid /\ Exited(f.st2)) =>
            f.val = WEXITSTATUS(f.st2)

\* C3: once the shell process has evaluated an exit/quit leaf in a tree of
\* SEQUENTIAL, IF_NONZERO and IF_ZERO nodes only, parse_command of the root
\* returns SHELL_EXIT.
C3_SentinelPropagates ==
    (At(Shell, "ret") /\ Len(procs[Shell].stack) = 1 /\ hist.exit /\ ~hist.conc) =>
        Top(Shell).val = SHELL_EXIT

\* C4: when execvp fails in the child of an external command, the child
\* ends with a non-zero exit status and execute_external_command returns a
\* non-zero value for it.
C4_ExecFailureIsNonZero ==
    \A p \in DOMAIN procs :
        (/\ AtOp(p, "OP_NONE", "wait")
         /\ Reapable(Top(p).pid1)
         /\ procs[Top(p).pid1].why = "exec") =>
            /\ WEXITSTATUS(procs[Top(p).pid1].status) # 0
            /\ ExtResult(procs[Top(p).pid1].status) # 0

\* C5: when fork() or pipe() fails in execute_external_command, run_on_pipe
\* or run_in_parallel (first or second fork), the leaf or operator returns a
\* non-zero status to the process, which keeps running.
C5_CreationFailureIsNonZero ==
    \A f \in ReturnedFrames :
        (\/ f.call = "execute_external_command" /\ f.pid1 = NoPid
         \/ f.op \in {"OP_PIPE", "OP_PARALLEL"} /\ (f.pid1 = NoPid \/ f.pid2 = NoPid)) =>
            f.val # 0

\* C6: when execute_external_command, run_on_pipe or run_in_parallel
\* returns, every child it forked has been waited for (none is left running
\* or as a zombie of the caller).
C6_ChildrenWaitedOnReturn ==
    \A f \in ReturnedFrames :
        \A c \in {f.pid1, f.pid2} \ {NoPid} : c \notin DOMAIN procs

\* the programs on the read end of channel i read their input to its end
ReadsToEnd(i) ==
    \A q \in DOMAIN procs :
        (IsProg(q) /\ procs[q].in = PipeEnd(i, "r")) => (procs[q].prog.rd \/ procs[q].prog.eof)

\* C7: a PIPE(A, B) node that forked both children never hangs, also nested
\* in other PIPE/PARALLEL nodes, when B reads its input to the end: while
\* its run_on_pipe waits for a child, some process can take a step (the
\* programs write finitely and every step makes progress, so under fair
\* scheduling both children then end and the call returns).
C7_PipeNeverHangs ==
    \A p \in DOMAIN procs :
        (/\ AtOp(p, "OP_PIPE", "wait1") \/ AtOp(p, "OP_PIPE", "wait2")
         /\ ReadsToEnd(Top(p).pfd)) =>
            ENABLED Next

\* C8: when the child of an external command was killed by a signal, the
\* status execute_external_command derives for it is non-zero.
C8_SignalIsFailure ==
    \A f \in ReturnedFrames :
        (f.call = "execute_external_command" /\ f.pid1 # NoPid /\ Signaled(f.st1)) =>
            f.val # 0

\* C9: a leaf whose verb is not exit, quit or cd and is not followed by "="
\* and a value (also one followed by another word, or by "=" alone) is
\* handed to execute_external_command.
C9_NonBuiltinRunsExternal ==
    \A f \in LeafFrames :
        (/\ f.verb[1] \notin {"exit", "quit", "cd"}
         /\ ~(Len(f.verb) >= 3 /\ f.verb[2] = "=")) =>
            f.call = "execute_external_command"

\* C10: a redirection that cannot be opened or duplicated ends only the
\* command: the child of an external leaf ends with a failure status, and
\* the shell process is never terminated by it, also not for a cd leaf.
C10_RedirectFailureSparesShell ==
    /\ \A p \in DOMAIN procs :
          (/\ AtOp(p, "OP_NONE", "wait")
           /\ Reapable(Top(p).pid1)
           /\ procs[Top(p).pid1].why = "die") =>
              ExtResult(procs[Top(p).pid1].status) # 0
    /\ ~(procs[Shell].st = "zombie" /\ procs[Shell].why = "die")

\* process p takes a step of its own evaluation and goes on running
Steps(p) ==
    /\ Running(p)
    /\ p \in DOMAIN procs'
    /\ procs'[p].st = "run"
    /\ procs'[p].stack # procs[p].stack

\* the frame that called the top frame of p
Caller(p) == procs[p].stack[Len(procs[p].stack) - 1]

\* the step in which the call on top of p returns into a frame of operator op
ReturnsInto(p, ops) ==
    /\ Steps(p)
    /\ Len(procs[p].stack) >= 2
    /\ Top(p).pc = "ret"
    /\ Caller(p).op \in ops

\* after the step, the caller is evaluating cmd2
StartsSecond(p) ==
    LET n == Len(procs[p].stack)
        st2 == procs'[p].stack
    IN  Len(st2) = n /\ st2[n - 1].pc = "c2" /\ st2[n].pc = "start"

\* after the step, the caller has returned v
CallerReturns(p, v) ==
    LET n == Len(procs[p].stack)
        st2 == procs'[p].stack
    IN  Len(st2) = n - 1 /\ st2[n - 1].pc = "ret" /\ st2[n - 1].val = v

\* C11: for every SEQUENTIAL(A, B) node, B starts only when A has returned,
\* B is then evaluated whatever A returned, and the node returns what B
\* returned.
C11_SequentialReturnsSecond ==
    [][\A p \in DOMAIN procs :
          /\ ReturnsInto(p, {"OP_SEQUENTIAL"}) =>
                IF Caller(p).pc = "c1" THEN StartsSecond(p)
                ELSE CallerReturns(p, Top(p).val)
          /\ \A i \in 1..Len(procs[p].stack) :
                (/\ Steps(p)
                 /\ procs[p].stack[i].op = "OP_SEQUENTIAL"
                 /\ procs[p].stack[i].pc = "c1"
                 /\ Len(procs'[p].stack) >= i
                 /\ procs'[p].stack[i].pc # "c1") =>
                    (i = Len(procs[p].stack) - 1 /\ Top(p).pc = "ret")]_vars

\* a SEQUENTIAL node has returned 1 after its cmd1 changed the directory:
\* cmd1 succeeded, cmd2 ran and failed
C11_Witness ==
    \E p \in DOMAIN procs :
        /\ AtOp(p, "OP_SEQUENTIAL", "ret")
        /\ procs[p].cwd = GoodDir
        /\ Top(p).val = 1

\* the step changes nothing of process p but its stack, creates no process
\* and no channel
NoSideEffect(p) ==
    /\ DOMAIN procs' = DOMAIN procs
    /\ pipes' = pipes
    /\ procs'[p].env = procs[p].env
    /\ procs'[p].cwd = procs[p].cwd
    /\ Descs(procs'[p]) = Descs(procs[p])
    /\ StreamsOf(procs'[p]) = StreamsOf(procs[p])

\* the trigger of a conditional node on the status v of A
Triggered(op, v) == IF op = "OP_CONDITIONAL_NZERO" THEN v # 0 ELSE v = 0

\* C12: for IF_NONZERO(A, B) and IF_ZERO(A, B), once A has returned v: B is
\* evaluated exactly when v meets the trigger; a skipped B makes the node
\* return v with no process created and no other effect; an evaluated B
\* makes the node return what B returned.
C12_ConditionalRunsOnTrigger ==
    [][\A p \in DOMAIN procs :
          ReturnsInto(p, {"OP_CONDITIONAL_NZERO", "OP_CONDITIONAL_ZERO"}) =>
             IF Caller(p).pc = "c1"
             THEN IF Triggered(Caller(p).op, Top(p).val)
                  THEN StartsSecond(p)
                  ELSE CallerReturns(p, Top(p).val) /\ NoSideEffect(p)
             ELSE CallerReturns(p, Top(p).val)]_vars

\* an IF_ZERO node has returned 1 after its cmd1 changed the directory:
\* cmd1 returned 0, so cmd2 ran and its status is returned
C12_Witness ==
    \E p \in DOMAIN procs :
        /\ AtOp(p, "OP_CONDITIONAL_ZERO", "ret")
        /\ procs[p].cwd = GoodDir
        /\ Top(p).val = 1

\* C13: an external leaf whose child was started and exited with code k
\* returns exactly k, and has by then waited for that child.
C13_ExternalReturnsExitCode ==
    \A f \in ReturnedFrames :
        (f.call = "execute_external_command" /\ f.pid1 # NoPid /\ Exited(f.st1)) =>
            /\ \E k \in 0..255 : f.st1 = ExitedStatus(k) /\ f.val = k
            /\ f.pid1 \notin DOMAIN procs

\* an external leaf has returned 2 for a child that exited with code 2
C13_Witness ==
    \E f \in ReturnedFrames :
        /\ f.call = "execute_external_command"
        /\ f.pid1 # NoPid
        /\ f.st1 = ExitedStatus(2)
        /\ f.val = 2

\* the top frame of p after the step
TopAfter(p) == procs'[p].stack[Len(procs'[p].stack)]

\* p is a live process before and after the step
Lives(p) ==
    /\ p \in DOMAIN procs /\ procs[p].st # "zombie"
    /\ p \in DOMAIN procs' /\ procs'[p].st # "zombie"

SameEnvAndDir(p) ==
    procs'[p].env = procs[p].env /\ procs'[p].cwd = procs[p].cwd

\* C14: an assignment or a cd changes the environment and the working
\* directory of the process that evaluates the leaf and of no other process
\* (not its parent, not its sibling); and from the step that starts a PIPE
\* or PARALLEL node in a process to the return of that node, the environment
\* and working directory of that process do not change.
C14_BranchIsolation ==
    [][\A p \in DOMAIN procs :
          /\ (Lives(p) /\ ~SameEnvAndDir(p)) =>
                /\ At(p, "start")
                /\ TopAfter(p).call \in {"complete_cd_command", "assign_environment_variable"}
                /\ \A q \in DOMAIN procs \ {p} : Lives(q) => SameEnvAndDir(q)
          /\ (/\ Lives(p) /\ Running(p) /\ procs'[p].st = "run"
              /\ \/ Top(p).op \in {"OP_PIPE", "OP_PARALLEL"}
                 \/ TopAfter(p).op \in {"OP_PIPE", "OP_PARALLEL"}) =>
                SameEnvAndDir(p)]_vars

\* a branch of a PARALLEL node has assigned the variable while its parent
\* and its sibling branch still have the initial value
C14_Witness ==
    \E p \in DOMAIN procs : \E c, d \in DOMAIN procs :
        /\ AtOp(p, "OP_PARALLEL", "wait1")
        /\ IsChildOf(c, p) /\ IsChildOf(d, p) /\ c # d
        /\ Running(c) /\ procs[c].env = "v1"
        /\ Running(d) /\ procs[d].env = InitEnv
        /\ procs[p].env = InitEnv

\* C15: when an assignment leaf NAME=value returns 0 in a process, the
\* variable has that value in the process and the step creates no process;
\* the variable of a process changes by no other step than an assignment
\* leaf of that process; and every child starts with the value its parent
\* has when it forks.
C15_AssignmentPersists ==
    [][/\ \A p \in DOMAIN procs :
             /\ (/\ At(p, "start") /\ Steps(p)
                 /\ TopAfter(p).call = "assign_environment_variable"
                 /\ Len(TopAfter(p).verb) = 3 /\ TopAfter(p).verb[2] = "="
                 /\ TopAfter(p).val = 0) =>
                    /\ procs'[p].env = TopAfter(p).verb[3]
                    /\ DOMAIN procs' = DOMAIN procs
             /\ (Lives(p) /\ procs'[p].env # procs[p].env) =>
                    /\ At(p, "start")
                    /\ TopAfter(p).call = "assign_environment_variable"
       /\ \A c \in DOMAIN procs' \ DOMAIN procs :
             procs'[c].st # "zombie" => procs'[c].env = procs[Parent(c)].env]_vars

\* the program of an external leaf runs with the assigned value, forked by
\* a process that made the assignment before
C15_Witness ==
    \E c \in DOMAIN procs :
        /\ IsProg(c) /\ procs[c].env = "v1"
        /\ AtOp(Parent(c), "OP_NONE", "wait")
        /\ procs[Parent(c)].env = "v1"

\* C16: the standard input, output and error of a process that goes on
\* evaluating change in no step but a cd leaf of that process: not by the
\* redirections of an external leaf, not by the pipe ends of a PIPE node,
\* not by an exit, quit or assignment leaf.
C16_StreamsChangeOnlyByCd ==
    [][\A p \in DOMAIN procs :
          (/\ Running(p) /\ p \in DOMAIN procs' /\ procs'[p].st = "run"
           /\ StreamsOf(procs'[p]) # StreamsOf(procs[p])) =>
              /\ At(p, "start")
              /\ TopAfter(p).call = "complete_cd_command"]_vars

\* the program of an external leaf writes to a file while the process that
\* forked it still has its own standard output
C16_Witness ==
    \E c \in DOMAIN procs :
        /\ IsProg(c) /\ procs[c].out.k = "file"
        /\ AtOp(Parent(c), "OP_NONE", "wait")
        /\ procs[Parent(c)].out = Tty

AppendIf(b) == IF b THEN "append" ELSE "trunc"

\* the streams the claim expects from streams t under the redirections of s
ExpectedStreams(t, s) ==
    [t EXCEPT
       !.in = IF s.in # NULL THEN File(s.in, "read") ELSE @,
       !.out = IF s.out = NULL THEN @
               ELSE IF s.err = NULL THEN File(s.out, AppendIf(OutAppendSet(s.io_flags)))
               ELSE File(s.out, "append"),
       !.err = IF s.err = NULL THEN @
               ELSE IF s.out = NULL THEN File(s.err, AppendIf(ErrAppendSet(s.io_flags)))
               ELSE File(s.err, "trunc")]

\* C17: whenever the redirections of a leaf are applied without a failure
\* (in the process of a cd leaf, in the child of an external leaf), for
\* every combination of targets and every value of their append flags: an
\* output target alone is opened for append iff the output append flag is
\* set, an error target alone iff the error append flag is set, with both
\* the output is opened for append and the error truncated, a present input
\* target becomes standard input, and an absent target leaves its stream.
C17_OpenModes ==
    [][\A p \in DOMAIN procs :
          (At(p, "start") /\ Steps(p) /\ TopAfter(p).op = "OP_NONE") =>
             LET f == TopAfter(p)
                 want == ExpectedStreams(StreamsOf(procs[p]), f.scmd)
             IN  /\ f.call = "complete_cd_command" =>
                        StreamsOf(procs'[p]) = want
                 /\ (/\ f.call = "execute_external_command"
                     /\ f.pid1 # NoPid
                     /\ procs'[f.pid1].st = "prog") =>
                        StreamsOf(procs'[f.pid1]) = want]_vars

\* a cd leaf has opened its output target, the only one, for append
C17_Witness ==
    \E p \in DOMAIN procs :
        /\ AtOp(p, "OP_NONE", "ret")
        /\ Top(p).call = "complete_cd_command"
        /\ Top(p).scmd.out = GoodFile /\ Top(p).scmd.err = NULL
        /\ Top(p).scmd.io_flags = IO_OUT_APPEND
        /\ procs[p].out = File(GoodFile, "append")

\* C18: a cd leaf that returns has created no process; it returns 0 with
\* the working directory changed to its first parameter when that directory
\* can be entered, and otherwise a non-zero status other than SHELL_EXIT with
\* the working directory unchanged; further parameters play no part; and a
\* leaf without redirections never ends the process that evaluates it.
C18_CdStatus ==
    [][\A p \in DOMAIN procs :
          /\ (At(p, "start") /\ Steps(p) /\ TopAfter(p).call = "complete_cd_command") =>
                LET f == TopAfter(p)
                    dir == f.scmd.params[1]
                IN  /\ f.pc = "ret"
                    /\ DOMAIN procs' = DOMAIN procs
                    /\ dir = GoodDir => (f.val = 0 /\ procs'[p].cwd = dir)
                    /\ dir # GoodDir =>
                          /\ f.val \notin {0, SHELL_EXIT}
                          /\ procs'[p].cwd = procs[p].cwd
          /\ (At(p, "start") /\ Top(p).n1 = 0 /\ procs'[p] # procs[p]) =>
                (p \in DOMAIN procs' /\ procs'[p].st = "run")]_vars

\* a cd to a directory that cannot be entered has returned 1 and left the
\* working directory as it was
C18_Witness ==
    \E p \in DOMAIN procs :
        /\ AtOp(p, "OP_NONE", "ret")
        /\ Top(p).call = "complete_cd_command"
        /\ Top(p).scmd.params = <<BadDir>>
        /\ Top(p).val = 1
        /\ procs[p].cwd = InitDir

\* the descriptors of process p that refer to channel i
RefsTo(p, i) == { d \in Descs(procs[p]) : d.k = "pipe" /\ d.id = i }

\* p is a branch child of a PIPE node about to evaluate its subtree
StartsBranch(p, pc) ==
    /\ At(p, "start")
    /\ Len(procs[p].stack) >= 2
    /\ Caller(p).op = "OP_PIPE"
    /\ Caller(p).pc = pc

\* C19: when the left child of a PIPE node starts evaluating A its only
\* reference to the channel is the write end as standard output, when the
\* right child starts evaluating B its only reference is the read end as
\* standard input, and when run_on_pipe has returned on any path after
\* creating the channel, the parent holds neither end of it.
C19_PipeCloseDiscipline ==
    \A p \in DOMAIN procs :
        /\ StartsBranch(p, "eval1") =>
              /\ RefsTo(p, Caller(p).pfd) = {PipeEnd(Caller(p).pfd, "w")}
              /\ procs[p].out = PipeEnd(Caller(p).pfd, "w")
              /\ procs[p].fds \cap BothEnds(Caller(p).pfd) = {}
        /\ StartsBranch(p, "eval2") =>
              /\ RefsTo(p, Caller(p).pfd) = {PipeEnd(Caller(p).pfd, "r")}
              /\ procs[p].in = PipeEnd(Caller(p).pfd, "r")
              /\ procs[p].fds \cap BothEnds(Caller(p).pfd) = {}
        /\ (AtOp(p, "OP_PIPE", "ret") /\ Top(p).pfd # <<>>) =>
              RefsTo(p, Top(p).pfd) = {}

\* the frames of stack st that belong to a branch child: the copies of the
\* PIPE or PARALLEL frames whose fork created the process
EvalFrames(st) == { i \in 1..Len(st) : st[i].pc \in {"eval1", "eval2"} }

\* the stack of p up to the frame of the fork that created it
OwnBase(p) ==
    LET st == procs[p].stack
        k == CHOOSE i \in EvalFrames(st) : \A j \in EvalFrames(st) : j <= i
    IN  SubSeq(st, 1, k)

\* C20: a forked child never returns into its parent's evaluation.  A
\* process created at depth n runs below exactly n frames of the forks that
\* created it and never changes them: it evaluates only its own subtree and
\* ends by exit (or by DIE), so only the shell can return from the top-level
\* parse_command.  The child of an external command is a program or a
\* zombie, never an evaluator.  When the subtree of a branch child returns
\* v, exit/quit's sentinel included, the child exits with v, no other
\* process changes its evaluation, and a PIPE or PARALLEL node never returns
\* the sentinel.
C20_ChildNeverReturnsToParent ==
    [][/\ \A p \in DOMAIN procs' :
             procs'[p].st = "run" =>
                 /\ Cardinality(EvalFrames(procs'[p].stack)) = Len(p)
                 /\ TopAfter(p).pc \notin {"eval1", "eval2"}
                 /\ (TopAfter(p).pc = "ret" /\ TopAfter(p).op \in {"OP_PIPE", "OP_PARALLEL"}) =>
                        TopAfter(p).val # SHELL_EXIT
       /\ \A p \in DOMAIN procs :
             (Running(p) /\ p # Shell /\ (p \notin DOMAIN procs' \/ procs'[p] # procs[p])) =>
                 \/ /\ p \in DOMAIN procs'
                    /\ procs'[p].st = "run"
                    /\ Len(procs'[p].stack) > Len(OwnBase(p))
                    /\ SubSeq(procs'[p].stack, 1, Len(OwnBase(p))) = OwnBase(p)
                 \/ /\ p \in DOMAIN procs'
                    /\ procs'[p].st = "run"
                    /\ procs'[p] = [procs[p] EXCEPT !.orphan = TRUE]
                 \/ /\ p \in DOMAIN procs' => (procs'[p].st = "zombie" /\ procs'[p].why \in {"exit", "die"})
                    /\ p \notin DOMAIN procs' => procs[p].orphan
       /\ \A p \in DOMAIN procs :
             (/\ At(p, "ret") /\ Len(procs[p].stack) >= 2
              /\ Caller(p).pc \in {"eval1", "eval2"}
              /\ (p \notin DOMAIN procs' \/ procs'[p].stack # procs[p].stack)) =>
                 /\ p \in DOMAIN procs' => procs'[p] = Zombie(ExitedStatus(Top(p).val), "exit")
                 /\ \A q \in DOMAIN procs' \ {p} :
                       /\ procs'[q].st = procs[q].st
                       /\ procs'[q].stack = procs[q].stack
                 /\ \A q \in DOMAIN procs \ (DOMAIN procs' \cup {p}) : procs[q].st = "zombie"]_vars

\* C20 witness: the shell has returned 0 from a PARALLEL node whose first
\* branch was an exit/quit leaf: the child exited with the sentinel as its
\* exit code and the shell itself evaluated no exit
C20_Witness ==
    /\ AtOp(Shell, "OP_PARALLEL", "ret")
    /\ Top(Shell).st1 = ExitedStatus(SHELL_EXIT)
    /\ Top(Shell).val = 0
    /\ ~hist.exit

====
